---- MODULE Spec2Model ----
(***************************************************************************)
(* Static-asset resolution and request dispatch of the token-view server   *)
(* (server.js: src/unnamed/part_000).                                      *)
(*                                                                         *)
(* A path string is modelled as the sequence of its "/"-separated          *)
(* segments: "/assets/app.js" is <<"", "assets", "app.js">>, "/" is        *)
(* <<"", "">>, "" is <<"">> and "favicon.ico" is <<"favicon.ico">>.  The   *)
(* map between strings and non-empty sequences of slash-free segments is   *)
(* one to one, so prefix tests, stripping of leading separators and        *)
(* node:path's normalize/join are computed on the segments exactly as the  *)
(* library computes them on the characters (POSIX flavour, the platform    *)
(* of the Dockerfiles).                                                    *)
(***************************************************************************)
EXTENDS Integers, Sequences, FiniteSets, TLC

\* ------------------------------------------------------------------ bounds

\* longest path (in segments) handed to resolveStatic directly
MaxSegs == 5

\* longest request target (in segments after the leading "/")
MaxUrlSegs == 2

\* length of a served file, in chunks of the read stream
FileLen == 2

\* how many rows more than a query's limit the transfers table may hold
MaxExtraRows == 2

\* LIMIT 200 of getTransfers
TransfersLimit == 200

\* LIMIT 25 of fetchLedgerData
LedgerLimit == 25

\* most transfers handed to the Transfers component
MaxFlowRows == 100

\* .slice(0, 40) of flowData
FlowLimit == 40

\* ------------------------------------------------------- segments and paths

\* the segment alphabet of the inputs
Segment == {"", ".", "..", "assets", "favicon.ico", "app.js"}

RECURSIVE SeqsUpTo(_, _)
SeqsUpTo(S, n) ==
  IF n = 0 THEN {<<>>}
  ELSE LET shorter == SeqsUpTo(S, n - 1)
       IN  shorter \cup {Append(s, x) : s \in {t \in shorter : Len(t) = n - 1}, x \in S}

\* every path string of at most MaxSegs segments over the alphabet
Paths == SeqsUpTo(Segment, MaxSegs) \ {<<>>}

Last(s) == s[Len(s)]

Front(s) == SubSeq(s, 1, Len(s) - 1)

\* ------------------------------------------------------ startup constants

\* process working directory: WORKDIR /app of the runtime image
cwd == <<"", "app">>

\* const clientDir = resolve('dist/client')
clientDir == cwd \o <<"dist", "client">>

staticFiles ==
  { "favicon.ico", "manifest.json", "robots.txt", "logo192.png", "logo512.png",
    "tanstack-circle-logo.png", "tanstack-word-logo-white.svg" }

\* ------------------------------------------------------------- node:path

\* path[0] === '/'
IsAbsolute(p) == Len(p) >= 2 /\ p[1] = ""

\* path[path.length - 1] === '/'
TrailingSeparator(p) == Len(p) >= 2 /\ Last(p) = ""

\* normalizeString(path, allowAboveRoot): drops empty and "." segments and
\* resolves ".." against the segments kept so far
RECURSIVE normalizeString(_, _, _)
normalizeString(p, allowAboveRoot, res) ==
  IF p = <<>> THEN res
  ELSE LET seg == Head(p)
           next ==
             IF seg = "" \/ seg = "." THEN res
             ELSE IF seg = ".."
               THEN IF res # <<>> /\ Last(res) # ".." THEN Front(res)
                    ELSE IF allowAboveRoot THEN Append(res, "..")
                    ELSE res
             ELSE Append(res, seg)
       IN  normalizeString(Tail(p), allowAboveRoot, next)

\* path.posix.normalize
normalize(p) ==
  IF p = <<"">> THEN <<".">>
  ELSE LET core == normalizeString(p, ~IsAbsolute(p), <<>>)
       IN  IF core = <<>>
             THEN IF IsAbsolute(p) THEN <<"", "">>
                  ELSE IF TrailingSeparator(p) THEN <<".", "">> ELSE <<".">>
             ELSE (IF IsAbsolute(p) THEN <<"">> ELSE <<>>) \o core
                  \o (IF TrailingSeparator(p) THEN <<"">> ELSE <<>>)

\* String.prototype.replace(/^\/+/, ''): drop every leading separator
RECURSIVE StripLeadingSeparators(_)
StripLeadingSeparators(p) ==
  IF Len(p) >= 2 /\ p[1] = "" THEN StripLeadingSeparators(Tail(p)) ELSE p

\* String.prototype.replace(/^\//, ''): drop one leading separator
StripOneSeparator(p) == IF Len(p) >= 2 /\ p[1] = "" THEN Tail(p) ELSE p

\* path.posix.join(root, rel): the non-empty arguments joined by "/", normalized
join(root, rel) == IF rel = <<"">> THEN normalize(root) ELSE normalize(root \o rel)

\* pathname.startsWith('/assets/')
StartsWithAssets(p) == Len(p) >= 3 /\ p[1] = "" /\ p[2] = "assets"

\* staticFiles.has(trimmed)
InAllowList(p) == Len(p) = 1 /\ p[1] \in staticFiles

\* ------------------------------------------------------------ filesystem

\* the files that may exist under the asset root
RootFiles ==
  { clientDir \o <<"assets", "app.js">>,
    clientDir \o <<"favicon.ico">>,
    clientDir \o <<"app.js">> }

\* files of the image outside the asset root (never deleted)
OutsideFiles == { cwd \o <<"dist", "app.js">>, cwd \o <<"app.js">>, <<"", "app.js">> }

\* directories of the image
Directories ==
  { <<"">>, cwd, cwd \o <<"dist">>, clientDir, clientDir \o <<"assets">> }

\* a filesystem state: the root files present, and whether the assets
\* directory is searchable by the server process
FsStates == [files : SUBSET RootFiles, denied : BOOLEAN]

IsPrefix(a, b) == Len(a) <= Len(b) /\ SubSeq(b, 1, Len(a)) = a

\* fs.promises.stat(p) on a normalized absolute path: the kind of the node,
\* or the error the call rejects with
Stat(f, p) ==
  LET node  == IF TrailingSeparator(p) THEN Front(p) ELSE p
      files == f.files \cup OutsideFiles
  IN  IF f.denied /\ IsPrefix(clientDir \o <<"assets">>, node)
         /\ node # clientDir \o <<"assets">>
        THEN "EACCES"
      ELSE IF node \in files
        THEN IF TrailingSeparator(p) THEN "ENOTDIR" ELSE "file"
      ELSE IF \E g \in files : IsPrefix(g, node) THEN "ENOTDIR"
      ELSE IF node \in Directories THEN "dir"
      ELSE "ENOENT"

\* ------------------------------------------------------------- the resolver

\* null
NoMatch == <<>>

\* a safe join that forgets to normalize before it strips the separators
FsPathUnnormalized(root, pathname) == join(root, StripLeadingSeparators(pathname))

\* const fsPath = join(root, normalize(pathname).replace(/^\/+/, ''))
FsPath(root, pathname) == join(root, StripLeadingSeparators(normalize(pathname)))

\* the value a resolver call settles with: the path (or null) and the
\* filesystem calls it made on the way
Settled(path, ops) == [path |-> path, ops |-> ops]

\* async function safeJoin(root, pathname)
safeJoin(root, pathname, f) ==
  LET fsPath == FsPath(root, pathname)
      ops    == << <<"stat", fsPath>> >>
  IN  IF Stat(f, fsPath) = "file" THEN Settled(fsPath, ops) ELSE Settled(NoMatch, ops)

\* a resolver without the allow-list test: every path is a candidate
resolveStaticAnyName(pathname, f) == safeJoin(clientDir, pathname, f)

\* a resolver that checks the filesystem before it classifies the path
resolveStaticStatFirst(pathname, f) ==
  LET checked == safeJoin(clientDir, pathname, f)
  IN  IF StartsWithAssets(pathname) \/ InAllowList(StripOneSeparator(pathname))
        THEN checked
        ELSE Settled(NoMatch, checked.ops)

\* async function resolveStatic(pathname)
resolveStatic(pathname, f) ==
  IF StartsWithAssets(pathname) THEN safeJoin(clientDir, pathname, f)
  ELSE IF InAllowList(StripOneSeparator(pathname)) THEN safeJoin(clientDir, pathname, f)
  ELSE Settled(NoMatch, <<>>)

\* p names a node strictly below the directory root
IsDescendant(p, root) ==
  /\ Len(p) > Len(root)
  /\ IsPrefix(root, p)
  /\ \A i \in (Len(root) + 1)..Len(p) : p[i] \notin {"", ".", ".."}

\* ------------------------------------------------------------------ state

VARIABLES
  fs,            \* the filesystem state
  handlerBound,  \* whether the free identifier `handler` of line 65 resolves
  req,           \* the incoming request: [url, method, headers]
  pc,            \* where the request callback stands
  url,           \* the parsed URL: [host, pathname]
  staticPath,    \* what resolveStatic returned
  res,           \* the outgoing response
  rs,            \* the read stream of the static branch
  fetched,       \* the requests the external handler was invoked with
  hres,          \* the handler's response being forwarded
  errlog,        \* console.error entries
  fsOps,         \* filesystem calls made for the request
  uncaught,      \* errors that escaped to the runtime
  fault,         \* the operation that failed while the request was handled
  peer,          \* a second request in flight, suspended while this one runs
  table,         \* the transfers table of data/db.sqlite
  loader,        \* what the route loaders returned
  view,          \* what the route component derived from the loader data
  call           \* a direct call of resolveStatic: [pathname, state, result]

vars ==
  << fs, handlerBound, req, pc, url, staticPath, res, rs, fetched, hres, errlog,
     fsOps, uncaught, fault, call, peer, table, loader, view >>

\* the state outside the request that is being handled
others == <<peer, table, loader, view>>

\* ------------------------------------------------------------ the request

\* the characters of a file or segment name
Spell(name) ==
  CASE name = "" -> <<>>
    [] name = "." -> <<".">>
    [] name = ".." -> <<".", ".">>
    [] name = "assets" -> <<"a", "s", "s", "e", "t", "s">>
    [] name = "favicon.ico" -> <<"f", "a", "v", "i", "c", "o", "n", ".", "i", "c", "o">>
    [] name = "app.js" -> <<"a", "p", "p", ".", "j", "s">>
    [] name = "a.html" -> <<"a", ".", "h", "t", "m", "l">>
    [] name = "a.js" -> <<"a", ".", "j", "s">>
    [] name = "a.css" -> <<"a", ".", "c", "s", "s">>
    [] name = "a.json" -> <<"a", ".", "j", "s", "o", "n">>
    [] name = "a.ico" -> <<"a", ".", "i", "c", "o">>
    [] name = "a.png" -> <<"a", ".", "p", "n", "g">>
    [] name = "a.svg" -> <<"a", ".", "s", "v", "g">>
    [] name = "a.txt" -> <<"a", ".", "t", "x", "t">>
    [] name = "a.woff2" -> <<"a", ".", "w", "o", "f", "f", "2">>
    [] name = "a.webp" -> <<"a", ".", "w", "e", "b", "p">>
    [] name = "a.avif" -> <<"a", ".", "a", "v", "i", "f">>
    [] name = "A.JS" -> <<"A", ".", "J", "S">>
    [] name = "a" -> <<"a">>
    [] name = ".js" -> <<".", "j", "s">>
    [] name = "a.min.js" -> <<"a", ".", "m", "i", "n", ".", "j", "s">>
    [] name = "a.js.gz" -> <<"a", ".", "j", "s", ".", "g", "z">>
    [] name = "a." -> <<"a", ".">>
    [] name = "a b.js" -> <<"a", " ", "b", ".", "j", "s">>
    [] name = "a%20b.js" -> <<"a", "%", "2", "0", "b", ".", "j", "s">>
    [] name = "favicon%2Eico" -> <<"f", "a", "v", "i", "c", "o", "n", "%", "2", "E", "i", "c", "o">>
    [] name = "%2e%2e" -> <<"%", "2", "e", "%", "2", "e">>
    [] name = "img" -> <<"i", "m", "g">>
    [] name = "favicon.ico?v=1" ->
         <<"f", "a", "v", "i", "c", "o", "n", ".", "i", "c", "o", "?", "v", "=", "1">>
    [] name = "app.js?v=1" -> <<"a", "p", "p", ".", "j", "s", "?", "v", "=", "1">>

\* the string made of the characters cs
RECURSIVE Unspell(_)
Unspell(cs) == IF cs = <<>> THEN "" ELSE Head(cs) \o Unspell(Tail(cs))

Methods == {"GET", "HEAD", "POST"}

\* the header sets of a request: no Host, a valid Host, a Host no URL accepts
HeaderSets == { {}, {<<"host", "example.com">>}, {<<"host", "a b">>} }

\* request targets in origin form, "/" followed by up to MaxUrlSegs segments;
\* targets beginning with "//" name an authority, not a path, and are left out
RawUrls ==
  { <<"">> \o s : s \in { t \in SeqsUpTo(Segment, MaxUrlSegs) \ {<<>>} :
                            Len(t) = 1 \/ t[1] # "" } }

Requests == [url : RawUrls, method : Methods, headers : HeaderSets]

HasHeader(h, name) == \E e \in h : e[1] = name

HeaderValue(h, name) == (CHOOSE e \in h : e[1] = name)[2]

\* req.headers.host ?? 'localhost'
HostOf(h) == IF HasHeader(h, "host") THEN HeaderValue(h, "host") ELSE "localhost"

\* the URL parser rejects a base whose host holds a forbidden code point
ValidHost(h) == h # "a b"

\* the segments the URL parser takes for "." and "..": the percent-encoded
\* spellings count, in either case of the hexadecimal digit
SingleDot == {".", "%2e", "%2E"}

DoubleDot == {"..", ".%2e", ".%2E", "%2e.", "%2E.", "%2e%2e", "%2E%2e", "%2e%2E", "%2E%2E"}

\* a URL path state that keeps dot segments as they are
UrlPathKeepsDots(segs, out) == out \o segs

\* the URL parser's path state: "." is dropped, ".." removes the segment
\* before it, either one in last position leaves an empty last segment
RECURSIVE UrlPath(_, _)
UrlPath(segs, out) ==
  IF segs = <<>> THEN out
  ELSE LET s    == Head(segs)
           tail == IF Len(segs) = 1 THEN <<"">> ELSE <<>>
       IN  UrlPath(Tail(segs),
             IF s \in DoubleDot THEN (IF out # <<>> THEN Front(out) ELSE out) \o tail
             ELSE IF s \in SingleDot THEN out \o tail
             ELSE Append(out, s))

\* the part of a request target before its query: the URL parser leaves the
\* path state at the first "?"
BeforeQuery(segs) ==
  LET marks(i) == { k \in 1..Len(Spell(segs[i])) : Spell(segs[i])[k] = "?" }
      with     == { i \in DOMAIN segs : marks(i) # {} }
      at       == CHOOSE i \in with : \A j \in with : i <= j
      cut      == CHOOSE k \in marks(at) : \A l \in marks(at) : k <= l
  IN  IF with = {} THEN segs
      ELSE SubSeq(segs, 1, at - 1) \o <<Unspell(SubSeq(Spell(segs[at]), 1, cut - 1))>>

\* a URL parser that takes the query for a part of the path
ParseURLKeepsQuery(r) ==
  [host |-> HostOf(r.headers), pathname |-> <<"">> \o UrlPath(Tail(r.url), <<>>)]

\* new URL(req.url ?? '/', `http://${req.headers.host ?? 'localhost'}`)
ParseURL(r) ==
  [host |-> HostOf(r.headers), pathname |-> <<"">> \o UrlPath(BeforeQuery(Tail(r.url)), <<>>)]

\* ----------------------------------------------------------- the response

\* a fresh http.ServerResponse
NewResponse ==
  [ statusCode  |-> 200,
    headers     |-> {},
    headersSent |-> FALSE,
    body        |-> <<>>,
    ended       |-> 0,
    destroyed   |-> FALSE ]

\* res.setHeader(name, value): one value per name, names compared in lower case
setHeader(r, name, value) ==
  [r EXCEPT !.headers = {e \in @ : e[1] # name} \cup {<<name, value>>}]

\* res.write(chunk) as the pipe does it; a destroyed response takes nothing
write(r, chunk) ==
  IF r.destroyed THEN r
  ELSE [r EXCEPT !.body = Append(@, chunk), !.headersSent = TRUE]

\* res.end(chunks)
end(r, chunks) ==
  IF r.destroyed THEN [r EXCEPT !.ended = @ + 1]
  ELSE [r EXCEPT !.body = @ \o chunks, !.headersSent = TRUE, !.ended = @ + 1]

ErrorBody == "Internal Server Error"

\* an error policy that ends the response without setting the status
handleErrorKeepsStatus(r) == end(r, <<ErrorBody>>)

\* function handleError(error, res), the response side
handleError(r) ==
  LET r1 == IF ~r.headersSent
              THEN setHeader([r EXCEPT !.statusCode = 500], "content-type", "text/plain")
              ELSE r
  IN  end(r1, <<ErrorBody>>)

\* path.extname on the characters of a base name: from the last "." to the
\* end; empty when there is no ".", when the only "." begins the name, and
\* for ".."
extnameOf(cs) ==
  LET dots == { i \in 1..Len(cs) : cs[i] = "." }
      dot  == CHOOSE i \in dots : \A j \in dots : j <= i
  IN  IF dots = {} THEN ""
      ELSE IF dot = 1 THEN ""
      ELSE IF cs = <<".", ".">> THEN ""
      ELSE Unspell(SubSeq(cs, dot, Len(cs)))

\* extname(staticPath)
extname(p) == extnameOf(Spell(Last(p)))

mimeMap ==
  (".html" :> "text/html") @@ (".js" :> "application/javascript") @@
  (".css" :> "text/css") @@ (".json" :> "application/json") @@
  (".ico" :> "image/x-icon") @@ (".png" :> "image/png") @@
  (".svg" :> "image/svg+xml") @@ (".txt" :> "text/plain") @@
  (".woff2" :> "font/woff2") @@ (".webp" :> "image/webp") @@
  (".avif" :> "image/avif")

LowerCase(cs) ==
  [ i \in DOMAIN cs |->
      CASE cs[i] = "A" -> "a" [] cs[i] = "J" -> "j" [] cs[i] = "S" -> "s" [] OTHER -> cs[i] ]

\* a lookup that ignores the case of the extension
ContentTypeIgnoresCase(p) ==
  LET ext == extnameOf(LowerCase(Spell(Last(p))))
  IN  IF ext \in DOMAIN mimeMap THEN mimeMap[ext] ELSE "application/octet-stream"

\* mimeMap[extname(staticPath)] ?? 'application/octet-stream'
ContentType(p) ==
  IF extname(p) \in DOMAIN mimeMap THEN mimeMap[extname(p)] ELSE "application/octet-stream"

CacheControl == "public, max-age=31536000, immutable"

\* a static response without the cache header
StaticHeadNoCache(r, p) ==
  setHeader([r EXCEPT !.statusCode = 200], "content-type", ContentType(p))

\* lines 49-51: status and headers of a static response
StaticHead(r, p) ==
  setHeader(setHeader([r EXCEPT !.statusCode = 200], "content-type", ContentType(p)),
            "cache-control", CacheControl)

\* the bytes of a file, one string per chunk the read stream delivers
FileTag(p) ==
  IF p = clientDir \o <<"assets", "app.js">> THEN "assets/app.js#"
  ELSE IF p = clientDir \o <<"favicon.ico">> THEN "favicon.ico#"
  ELSE "other#"

Content(p) == [i \in 1..FileLen |-> FileTag(p) \o ToString(i)]

\* ------------------------------------------------------ the external handler

\* response.headers as Headers.forEach visits it: sorted by name, values of a
\* repeated name combined, except set-cookie, whose values are visited one by one
HeaderLists ==
  { <<>>,
    << <<"content-type", "text/html">> >>,
    << <<"set-cookie", "a=1">>, <<"set-cookie", "b=2">> >> }

\* what the handler may resolve with; body is null when hasBody is FALSE
HandlerResponses ==
  [ status : {200, 404}, headers : HeaderLists, hasBody : {FALSE}, body : {<<>>} ]
  \cup [ status : {200, 404}, headers : HeaderLists, hasBody : {TRUE}, body : {<<"<html>">>} ]

\* a Request that carries the incoming stream whatever the method
BuildRequestAlwaysBody(r, u) ==
  [ url |-> u, method |-> r.method, headers |-> r.headers, body |-> "stream" ]

\* lines 58-63: the Request handed to the handler
BuildRequest(r, u) ==
  [ url     |-> u,
    method  |-> r.method,
    headers |-> r.headers,
    body    |-> IF r.method = "GET" \/ r.method = "HEAD" THEN "undefined" ELSE "stream" ]

\* response.headers.forEach((value, key) => res.setHeader(key, value))
RECURSIVE forEachSetHeader(_, _)
forEachSetHeader(r, list) ==
  IF list = <<>> THEN r
  ELSE forEachSetHeader(setHeader(r, Head(list)[1], Head(list)[2]), Tail(list))

\* lines 66-67: status and headers of a forwarded response
ForwardHead(r, response) ==
  forEachSetHeader([r EXCEPT !.statusCode = response.status], response.headers)

\* ------------------------------------------------------------ initial state

NoUrl == [host |-> "", pathname |-> <<>>]

NoStream == [state |-> "none", path |-> NoMatch, pos |-> 0, fd |-> FALSE, piped |-> FALSE]

NoResponse == [status |-> 0, headers |-> <<>>, hasBody |-> FALSE, body |-> <<>>, pos |-> 0]

NoRequest == [url |-> <<>>, method |-> "", headers |-> {}]

IdleCall == [pathname |-> <<>>, state |-> "idle", result |-> NoMatch, ops |-> <<>>]

\* no second request
NoPeer == [active |-> FALSE]

\* no route loader has run
IdleLoader == [state |-> "idle"]

\* no route component has rendered
NoView == [state |-> "none"]

\* one request arrives at a server whose asset root holds any of the files
Init ==
  /\ fs \in FsStates
  /\ handlerBound \in BOOLEAN
  /\ req \in Requests
  /\ pc = "received"
  /\ url = NoUrl
  /\ staticPath = NoMatch
  /\ res = NewResponse
  /\ rs = NoStream
  /\ fetched = <<>>
  /\ hres = NoResponse
  /\ errlog = <<>>
  /\ fsOps = <<>>
  /\ uncaught = 0
  /\ fault = "none"
  /\ call = IdleCall
  /\ peer = NoPeer
  /\ table = <<>>
  /\ loader = IdleLoader
  /\ view = NoView

\* ----------------------------------------------------- the request callback

\* catch (error) { handleError(error, res) }, and the stream's error listener
Failed(what, error) ==
  /\ res' = handleError(res)
  /\ errlog' = Append(errlog, error)
  /\ fault' = what
  /\ pc' = "done"

\* line 45: parse the request target against the Host header
ParseUrl ==
  /\ pc = "received"
  /\ IF ValidHost(HostOf(req.headers))
       THEN /\ url' = ParseURL(req)
            /\ pc' = "resolving"
            /\ UNCHANGED <<res, errlog, fault>>
       ELSE /\ Failed("url", "TypeError: Invalid URL")
            /\ UNCHANGED url
  /\ UNCHANGED <<others, fs, handlerBound, req, staticPath, rs, fetched, hres, fsOps, uncaught, call>>

\* line 47: const staticPath = await resolveStatic(url.pathname)
Resolve ==
  /\ pc = "resolving"
  /\ LET r == resolveStatic(url.pathname, fs)
     IN  /\ staticPath' = r.path
         /\ fsOps' = fsOps \o r.ops
  /\ pc' = "resolved"
  /\ UNCHANGED <<others, fs, handlerBound, req, url, res, rs, fetched, hres, errlog, uncaught, call, fault>>

\* the environment removes the resolved file between the check and the open
Unlink ==
  /\ \/ pc = "resolved"
     \/ pc = "streaming" /\ rs.state = "opening"
  /\ staticPath \in fs.files
  /\ fs' = [fs EXCEPT !.files = @ \ {staticPath}]
  /\ UNCHANGED <<others, handlerBound, req, pc, url, staticPath, res, rs, fetched, hres, errlog,
                 fsOps, uncaught, call, fault>>

\* lines 48-55: the static branch; createReadStream opens the file later
RespondStatic ==
  /\ pc = "resolved"
  /\ staticPath # NoMatch
  /\ res' = StaticHead(res, staticPath)
  /\ rs' = [state |-> "opening", path |-> staticPath, pos |-> 0, fd |-> FALSE, piped |-> TRUE]
  /\ pc' = "streaming"
  /\ UNCHANGED <<others, fs, handlerBound, req, url, staticPath, fetched, hres, errlog, fsOps,
                 uncaught, call, fault>>

\* a dispatcher that hands the request to the handler when the open fails
StreamOpenFallsBack ==
  /\ pc = "streaming"
  /\ rs.state = "opening"
  /\ fsOps' = Append(fsOps, <<"open", rs.path>>)
  /\ IF Stat(fs, rs.path) = "file"
       THEN /\ rs' = [rs EXCEPT !.state = "open", !.fd = TRUE]
            /\ UNCHANGED <<res, errlog, fault, pc, staticPath>>
       ELSE /\ rs' = [rs EXCEPT !.state = "closed"]
            /\ staticPath' = NoMatch
            /\ pc' = "resolved"
            /\ UNCHANGED <<res, errlog, fault>>
  /\ UNCHANGED <<others, fs, handlerBound, req, url, fetched, hres, uncaught, call>>

\* the read stream opens its file, or emits 'error' when the file is gone
StreamOpen ==
  /\ pc = "streaming"
  /\ rs.state = "opening"
  /\ fsOps' = Append(fsOps, <<"open", rs.path>>)
  /\ IF Stat(fs, rs.path) = "file"
       THEN /\ rs' = [rs EXCEPT !.state = "open", !.fd = TRUE]
            /\ UNCHANGED <<res, errlog, fault, pc>>
       ELSE /\ rs' = [rs EXCEPT !.state = "closed"]
            /\ Failed("open", "ENOENT")
  /\ UNCHANGED <<others, fs, handlerBound, req, url, staticPath, fetched, hres, uncaught, call>>

\* .pipe(res): one chunk of the file is written to the response
StreamChunk ==
  /\ pc = "streaming"
  /\ rs.state = "open"
  /\ rs.piped
  /\ rs.pos < FileLen
  /\ res' = write(res, Content(rs.path)[rs.pos + 1])
  /\ rs' = [rs EXCEPT !.pos = @ + 1]
  /\ UNCHANGED <<others, fs, handlerBound, req, pc, url, staticPath, fetched, hres, errlog, fsOps,
                 uncaught, call, fault>>

\* end of file: the pipe ends the response and the stream closes its file
StreamEnd ==
  /\ pc = "streaming"
  /\ rs.state = "open"
  /\ rs.piped
  /\ rs.pos = FileLen
  /\ res' = end(res, <<>>)
  /\ rs' = [rs EXCEPT !.state = "closed", !.fd = FALSE]
  /\ pc' = "done"
  /\ UNCHANGED <<others, fs, handlerBound, req, url, staticPath, fetched, hres, errlog, fsOps,
                 uncaught, call, fault>>

\* a dispatcher that resolves the path again when a read fails
StreamReadErrorReResolves ==
  /\ pc = "streaming"
  /\ rs.state = "open"
  /\ rs.piped
  /\ rs' = [rs EXCEPT !.state = "closed", !.fd = FALSE]
  /\ IF Len(fsOps) < 4
       THEN /\ pc' = "resolving"
            /\ UNCHANGED <<res, errlog, fault>>
       ELSE Failed("read", "EIO")
  /\ UNCHANGED <<others, fs, handlerBound, req, url, staticPath, fetched, hres, fsOps, uncaught, call>>

\* a read fails: the stream is destroyed and its listener runs handleError
StreamReadError ==
  /\ pc = "streaming"
  /\ rs.state = "open"
  /\ rs.piped
  /\ rs' = [rs EXCEPT !.state = "closed", !.fd = FALSE]
  /\ Failed("read", "EIO")
  /\ UNCHANGED <<others, fs, handlerBound, req, url, staticPath, fetched, hres, fsOps, uncaught, call>>

\* the client goes away: the response emits 'close', the pipe unpipes and
\* pauses its source; nothing destroys the read stream
ClientDisconnect ==
  /\ pc = "streaming"
  /\ ~res.destroyed
  /\ res' = [res EXCEPT !.destroyed = TRUE]
  /\ rs' = [rs EXCEPT !.piped = FALSE]
  /\ UNCHANGED <<others, fs, handlerBound, req, pc, url, staticPath, fetched, hres, errlog, fsOps,
                 uncaught, call, fault>>

\* lines 58-65: build the Request and evaluate handler.fetch(request); the
\* module declares no `handler`, so the call reaches a handler only where the
\* name resolves in the global scope and is a ReferenceError otherwise
Delegate ==
  /\ pc = "resolved"
  /\ staticPath = NoMatch
  /\ IF handlerBound
       THEN /\ fetched' = Append(fetched, BuildRequest(req, url))
            /\ pc' = "awaiting"
            /\ UNCHANGED <<res, errlog, fault>>
       ELSE /\ Failed("reference", "ReferenceError: handler is not defined")
            /\ UNCHANGED fetched
  /\ UNCHANGED <<others, fs, handlerBound, req, url, staticPath, rs, hres, fsOps, uncaught, call>>

\* a dispatcher that calls the handler a second time when the first call rejects
HandlerRejectsRetries ==
  /\ pc = "awaiting"
  /\ IF Len(fetched) < 2
       THEN /\ fetched' = Append(fetched, BuildRequest(req, url))
            /\ UNCHANGED <<res, errlog, fault, pc>>
       ELSE /\ Failed("rejected", "handler rejected")
            /\ UNCHANGED fetched
  /\ UNCHANGED <<others, fs, handlerBound, req, url, staticPath, rs, hres, fsOps, uncaught, call>>

\* the handler's promise rejects
HandlerRejects ==
  /\ pc = "awaiting"
  /\ Failed("rejected", "handler rejected")
  /\ UNCHANGED <<others, fs, handlerBound, req, url, staticPath, rs, fetched, hres, fsOps, uncaught,
                 call>>

\* lines 66-74: the handler's promise resolves with a response
HandlerResponds ==
  /\ pc = "awaiting"
  /\ \E response \in HandlerResponses :
       /\ hres' = [ status |-> response.status, headers |-> response.headers,
                     hasBody |-> response.hasBody, body |-> response.body, pos |-> 0 ]
       /\ IF ~response.hasBody
            THEN /\ res' = end(ForwardHead(res, response), <<>>)
                 /\ pc' = "done"
            ELSE /\ res' = ForwardHead(res, response)
                 /\ pc' = "forwarding"
  /\ UNCHANGED <<others, fs, handlerBound, req, url, staticPath, rs, fetched, errlog, fsOps,
                 uncaught, call, fault>>

\* Readable.fromWeb(response.body).pipe(res): one chunk of the handler's body
ForwardChunk ==
  /\ pc = "forwarding"
  /\ hres.pos < Len(hres.body)
  /\ res' = write(res, hres.body[hres.pos + 1])
  /\ hres' = [hres EXCEPT !.pos = @ + 1]
  /\ UNCHANGED <<others, fs, handlerBound, req, pc, url, staticPath, rs, fetched, errlog, fsOps,
                 uncaught, call, fault>>

\* the handler's body ends: the pipe ends the response
ForwardEnd ==
  /\ pc = "forwarding"
  /\ hres.pos = Len(hres.body)
  /\ res' = end(res, <<>>)
  /\ pc' = "done"
  /\ UNCHANGED <<others, fs, handlerBound, req, url, staticPath, rs, fetched, hres, errlog, fsOps,
                 uncaught, call, fault>>

\* the handler's body stream errors: line 74 attaches no 'error' listener and
\* awaits the return value of pipe(), which is the response and no promise, so
\* the event has no listener and the catch of line 75 is already left
ForwardError ==
  /\ pc = "forwarding"
  /\ uncaught' = uncaught + 1
  /\ fault' = "body"
  /\ pc' = "done"
  /\ UNCHANGED <<others, fs, handlerBound, req, url, staticPath, res, rs, fetched, hres, errlog,
                 fsOps, call>>

Next ==
  \/ ParseUrl
  \/ Resolve
  \/ Unlink
  \/ RespondStatic
  \/ StreamOpen
  \/ StreamChunk
  \/ StreamEnd
  \/ StreamReadError
  \/ ClientDisconnect
  \/ Delegate
  \/ HandlerRejects
  \/ HandlerResponds
  \/ ForwardChunk
  \/ ForwardEnd
  \/ ForwardError

Spec == Init /\ [][Next]_vars

\* the event loop runs whatever is ready: the filesystem answers, an open
\* stream delivers, ends or fails, the handler settles
LiveTargets == { <<"", "favicon.ico">>, <<"", "a">> }

\* a request for the listed file or for a handler route arrives, the asset
\* root empty or populated
InitLive ==
  /\ fs \in { [files |-> F, denied |-> FALSE] : F \in {{}, RootFiles} }
  /\ handlerBound \in BOOLEAN
  /\ req \in [url : LiveTargets, method : {"GET", "POST"},
              headers : { {<<"host", "example.com">>}, {<<"host", "a b">>} }]
  /\ pc = "received"
  /\ url = NoUrl
  /\ staticPath = NoMatch
  /\ res = NewResponse
  /\ rs = NoStream
  /\ fetched = <<>>
  /\ hres = NoResponse
  /\ errlog = <<>>
  /\ fsOps = <<>>
  /\ uncaught = 0
  /\ fault = "none"
  /\ call = IdleCall
  /\ peer = NoPeer
  /\ table = <<>>
  /\ loader = IdleLoader
  /\ view = NoView

SpecLive == InitLive /\ [][Next]_vars /\ WF_vars(Next)

\* ------------------------------------------- resolveStatic called directly

\* resolveStatic is called with any path, against any filesystem state
InitResolve ==
  /\ fs \in FsStates
  /\ call \in [pathname : Paths, state : {"called"}, result : {NoMatch}, ops : {<<>>}]
  /\ handlerBound = FALSE
  /\ req = NoRequest
  /\ pc = "idle"
  /\ url = NoUrl
  /\ staticPath = NoMatch
  /\ res = NewResponse
  /\ rs = NoStream
  /\ fetched = <<>>
  /\ hres = NoResponse
  /\ errlog = <<>>
  /\ fsOps = <<>>
  /\ uncaught = 0
  /\ fault = "none"
  /\ peer = NoPeer
  /\ table = <<>>
  /\ loader = IdleLoader
  /\ view = NoView

\* the promise of resolveStatic settles
ResolveReturns ==
  /\ call.state = "called"
  /\ LET r == resolveStatic(call.pathname, fs)
     IN  call' = [call EXCEPT !.state = "returned", !.result = r.path, !.ops = r.ops]
  /\ UNCHANGED <<others, fs, handlerBound, req, pc, url, staticPath, res, rs, fetched, hres, errlog,
                 fsOps, uncaught, fault>>

NextResolve == ResolveReturns

SpecResolve == InitResolve /\ [][NextResolve]_vars

\* ------------------------------------------ requests for files of any name

\* names of files under dist/client/assets: one per listed extension, then an
\* upper-case extension, no extension, a dot file, two extensions, an unlisted
\* extension, a trailing dot and a name with a space
ServeNames ==
  { "a.html", "a.js", "a.css", "a.json", "a.ico", "a.png", "a.svg", "a.txt",
    "a.woff2", "a.webp", "a.avif",
    "A.JS", "a", ".js", "a.min.js", "a.js.gz", "a.", "a b.js" }

ServeFiles ==
  { clientDir \o <<"assets", n>> : n \in ServeNames } \cup { clientDir \o <<"favicon.ico">> }

\* request targets as clients send them: a space travels as %20, and any
\* character may travel percent-encoded
ServeTargets ==
  { <<"", "assets", n>> : n \in (ServeNames \ {"a b.js"}) \cup {"a%20b.js"} }
    \cup { <<"", "favicon.ico">>, <<"", "favicon%2Eico">> }

\* a GET for one of the targets arrives while the asset root holds no file,
\* one of the files or all of them
InitServe ==
  /\ fs \in { [files |-> F, denied |-> FALSE] :
                F \in {{}, ServeFiles} \cup { {f} : f \in ServeFiles } }
  /\ handlerBound \in BOOLEAN
  /\ req \in [url : ServeTargets, method : {"GET"}, headers : {{<<"host", "example.com">>}}]
  /\ pc = "received"
  /\ url = NoUrl
  /\ staticPath = NoMatch
  /\ res = NewResponse
  /\ rs = NoStream
  /\ fetched = <<>>
  /\ hres = NoResponse
  /\ errlog = <<>>
  /\ fsOps = <<>>
  /\ uncaught = 0
  /\ fault = "none"
  /\ call = IdleCall
  /\ peer = NoPeer
  /\ table = <<>>
  /\ loader = IdleLoader
  /\ view = NoView

SpecServe == InitServe /\ [][Next]_vars

\* ------------------------------------------- requests that try to get out

\* longest request target of the traversal requests, in segments
MaxTraverseSegs == 4

\* the segments of the traversal requests: those of Segment, an encoded
\* "..", and the name of a directory that is not served
TraverseSegment == Segment \cup {"%2e%2e", "img"}

TraverseTargets ==
  { <<"">> \o s : s \in { t \in SeqsUpTo(TraverseSegment, MaxTraverseSegs) \ {<<>>} :
                            Len(t) = 1 \/ t[1] # "" } }

\* every file of RootFiles, and one in a directory beside assets
TraverseFiles == RootFiles \cup { clientDir \o <<"img", "app.js">> }

\* a GET for any of the targets arrives; the asset root holds all the files
\* or none
InitTraverse ==
  /\ fs \in [files : {{}, TraverseFiles}, denied : {FALSE}]
  /\ handlerBound \in BOOLEAN
  /\ req \in [url : TraverseTargets, method : {"GET"}, headers : {{<<"host", "example.com">>}}]
  /\ pc = "received"
  /\ url = NoUrl
  /\ staticPath = NoMatch
  /\ res = NewResponse
  /\ rs = NoStream
  /\ fetched = <<>>
  /\ hres = NoResponse
  /\ errlog = <<>>
  /\ fsOps = <<>>
  /\ uncaught = 0
  /\ fault = "none"
  /\ call = IdleCall
  /\ peer = NoPeer
  /\ table = <<>>
  /\ loader = IdleLoader
  /\ view = NoView

SpecTraverse == InitTraverse /\ [][Next]_vars

\* ------------------------------------------------- two requests in flight

\* the callback's state for the request that is running
Mine ==
  [ active |-> TRUE, req |-> req, pc |-> pc, url |-> url, staticPath |-> staticPath,
    res |-> res, rs |-> rs, fetched |-> fetched, hres |-> hres, fsOps |-> fsOps,
    fault |-> fault ]

PairRequests ==
  { [url |-> <<"", "favicon.ico">>, method |-> "GET", headers |-> {<<"host", "example.com">>}],
    [url |-> <<"", "app.js">>, method |-> "GET", headers |-> {<<"host", "example.com">>}],
    [url |-> <<"", "assets", "app.js">>, method |-> "POST", headers |-> {}] }

\* a request as the callback receives it
Arrived(r) ==
  [ active |-> TRUE, req |-> r, pc |-> "received", url |-> NoUrl, staticPath |-> NoMatch,
    res |-> NewResponse, rs |-> NoStream, fetched |-> <<>>, hres |-> NoResponse,
    fsOps |-> <<>>, fault |-> "none" ]

\* two requests have arrived at one server process
InitPair ==
  /\ fs \in [files : SUBSET {clientDir \o <<"favicon.ico">>, clientDir \o <<"assets", "app.js">>},
              denied : {FALSE}]
  /\ handlerBound \in BOOLEAN
  /\ req \in PairRequests
  /\ peer \in { Arrived(r) : r \in PairRequests }
  /\ pc = "received"
  /\ url = NoUrl
  /\ staticPath = NoMatch
  /\ res = NewResponse
  /\ rs = NoStream
  /\ fetched = <<>>
  /\ hres = NoResponse
  /\ errlog = <<>>
  /\ fsOps = <<>>
  /\ uncaught = 0
  /\ fault = "none"
  /\ call = IdleCall
  /\ table = <<>>
  /\ loader = IdleLoader
  /\ view = NoView

\* three request targets, each without and with a query string
SameTargets ==
  { << <<"", "favicon.ico">>, <<"", "favicon.ico?v=1">> >>,
    << <<"", "app.js">>, <<"", "app.js?v=1">> >>,
    << <<"", "assets", "app.js">>, <<"", "assets", "app.js?v=1">> >> }

\* a plain GET and, with it, a request for the same path that differs in
\* method, headers or query string
InitSame ==
  /\ fs \in [files : {{}, RootFiles}, denied : {FALSE}]
  /\ handlerBound \in BOOLEAN
  /\ \E t \in SameTargets :
       /\ req = [url |-> t[1], method |-> "GET", headers |-> {<<"host", "example.com">>}]
       /\ peer \in { Arrived(r) : r \in [url : {t[1], t[2]}, method : Methods,
                                         headers : HeaderSets] }
  /\ pc = "received"
  /\ url = NoUrl
  /\ staticPath = NoMatch
  /\ res = NewResponse
  /\ rs = NoStream
  /\ fetched = <<>>
  /\ hres = NoResponse
  /\ errlog = <<>>
  /\ fsOps = <<>>
  /\ uncaught = 0
  /\ fault = "none"
  /\ call = IdleCall
  /\ table = <<>>
  /\ loader = IdleLoader
  /\ view = NoView

\* the event loop turns to the other request: between two awaits or stream
\* events of one callback any step of the other may run
Switch ==
  /\ peer.active
  /\ peer' = Mine
  /\ req' = peer.req
  /\ pc' = peer.pc
  /\ url' = peer.url
  /\ staticPath' = peer.staticPath
  /\ res' = peer.res
  /\ rs' = peer.rs
  /\ fetched' = peer.fetched
  /\ hres' = peer.hres
  /\ fsOps' = peer.fsOps
  /\ fault' = peer.fault
  /\ UNCHANGED <<fs, handlerBound, errlog, uncaught, call, table, loader, view>>

\* an uncaught exception ends the process and every request it was handling
Alive == uncaught = 0

PairNext ==
  \/ Alive /\ Switch
  \/ Alive /\ ParseUrl
  \/ Alive /\ Resolve
  \/ Alive /\ RespondStatic
  \/ Alive /\ StreamOpen
  \/ Alive /\ StreamChunk
  \/ Alive /\ StreamEnd
  \/ Alive /\ StreamReadError
  \/ Alive /\ ClientDisconnect
  \/ Alive /\ Delegate
  \/ Alive /\ HandlerRejects
  \/ Alive /\ HandlerResponds
  \/ Alive /\ ForwardChunk
  \/ Alive /\ ForwardEnd
  \/ Alive /\ ForwardError

SpecPair == InitPair /\ [][PairNext]_vars

SpecSame == InitSame /\ [][PairNext]_vars

\* ------------------------------------------------------- the route loaders

\* the transfers table holding n rows in insertion order.  Row i was mined
\* `gap` hours after row i-1; blocks grow with i, two rows to a block when
\* `shared`; addresses are numbered 1..3; transfer 4 of every 256 moves nothing.
\* tx_hash is the row's number, unique as the hash is.
Rows(n, gap, shared) ==
  [ i \in 1..n |->
      [ tx_hash   |-> i,
        block     |-> IF shared THEN (i + 1) \div 2 ELSE i,
        hour      |-> (i - 1) * gap,
        from_addr |-> (i % 3) + 1,
        to_addr   |-> ((i + 1) % 3) + 1,
        value     |-> IF i % 256 = 4 THEN 0 ELSE (i % 2) + 1 ] ]

\* table sizes around zero and around each LIMIT
TableSizes ==
  (0..MaxExtraRows) \cup ((LedgerLimit - 1)..(LedgerLimit + MaxExtraRows))
    \cup ((TransfersLimit - 1)..(TransfersLimit + MaxExtraRows))

Tables == { Rows(n, gap, shared) : n \in TableSizes, gap \in {0, 1, 24}, shared \in BOOLEAN }

\* ORDER BY leaves the order of rows with equal keys to the engine
TieOrders == {"first", "last"}

\* the members of a finite set of naturals, in ascending order
Ascending(S) ==
  IF S = {} THEN <<>>
  ELSE LET top == CHOOSE x \in S : \A y \in S : y <= x
       IN  SelectSeq([k \in 1..(top + 1) |-> k - 1], LAMBDA x : x \in S)

\* LIMIT k
Take(s, k) == SubSeq(s, 1, IF Len(s) < k THEN Len(s) ELSE k)

\* SELECT ... FROM transfers ORDER BY block DESC
ByBlockDesc(t, tie) ==
  SortSeq(t, LAMBDA a, b :
    \/ a.block > b.block
    \/ a.block = b.block /\ IF tie = "first" THEN a.tx_hash < b.tx_hash
                                              ELSE a.tx_hash > b.tx_hash)

\* a transfers query that forgot its LIMIT
getTransfersNoLimit(t, tie) == ByBlockDesc(t, tie)

\* getTransfers: ... ORDER BY block DESC LIMIT 200
getTransfers(t, tie) == Take(ByBlockDesc(t, tie), TransfersLimit)

\* fetchLedgerData: ... ORDER BY block DESC LIMIT 25
fetchLedgerData(t, tie) == [ transfers |-> Take(ByBlockDesc(t, tie), LedgerLimit) ]

\* date(timestamp, 'unixepoch')
DayOf(hour) == hour \div 24

\* getHolderSeries: one row per day, with the number of distinct addresses
\* that sent or received on that day, ORDER BY day
getHolderSeries(t) ==
  LET days     == { DayOf(t[i].hour) : i \in DOMAIN t }
      addrs(d) == { t[i].from_addr : i \in { j \in DOMAIN t : DayOf(t[j].hour) = d } }
                    \cup { t[i].to_addr : i \in { j \in DOMAIN t : DayOf(t[j].hour) = d } }
      sorted   == Ascending(days)
  IN  [ k \in DOMAIN sorted |-> [ day |-> sorted[k], unique_addrs |-> Cardinality(addrs(sorted[k])) ] ]

\* the time unit getSankeyData groups by: the hour in holders.tsx, the day
\* in the daily variant of the route
Units == {"hour", "day"}

Bucket(unit, hour) == IF unit = "hour" THEN hour ELSE DayOf(hour)

\* SUM(value) over the rows idx of t: each distinct value times the number
\* of rows that hold it
RECURSIVE SumOf(_, _, _)
SumOf(t, idx, values) ==
  IF values = {} THEN 0
  ELSE LET v == CHOOSE w \in values : TRUE
       IN  v * Cardinality({ i \in idx : t[i].value = v }) + SumOf(t, idx, values \ {v})

SumValues(t, idx) == SumOf(t, idx, { t[i].value : i \in idx })

\* the address pairs, in the order the engine lists equal buckets
AddrPairs(tie) ==
  LET asc == << <<1, 1>>, <<1, 2>>, <<1, 3>>, <<2, 1>>, <<2, 2>>, <<2, 3>>,
                <<3, 1>>, <<3, 2>>, <<3, 3>> >>
  IN  IF tie = "first" THEN asc ELSE [ k \in 1..9 |-> asc[10 - k] ]

\* the rows of the flow query: GROUP BY bucket, from_addr, to_addr with
\* SUM(value), WHERE amount != 0, ORDER BY bucket
FlowRows(t, unit, tie) ==
  LET key(i)    == << Bucket(unit, t[i].hour), t[i].from_addr, t[i].to_addr >>
      groups    == { key(i) : i \in DOMAIN t }
      amount(g) == SumValues(t, { i \in DOMAIN t : key(i) = g })
      kept      == { g \in groups : amount(g) # 0 }
      buckets   == Ascending({ g[1] : g \in kept })
      pairs     == AddrPairs(tie)
      ordered   == [ k \in 1..(Len(buckets) * 9) |->
                       << buckets[((k - 1) \div 9) + 1],
                          pairs[((k - 1) % 9) + 1][1], pairs[((k - 1) % 9) + 1][2] >> ]
      sorted    == SelectSeq(ordered, LAMBDA g : g \in kept)
  IN  [ k \in DOMAIN sorted |->
          [ bucket |-> sorted[k][1], from_addr |-> sorted[k][2], to_addr |-> sorted[k][3],
            amount |-> amount(sorted[k]) ] ]

\* a loop that enters only the sender of each row in the node map
NodeIdsSourcesOnly(rows) ==
  LET mention == [ j \in DOMAIN rows |-> << rows[j].bucket, rows[j].from_addr >> ]
      first   == SelectSeq([ j \in DOMAIN rows |-> j ],
                           LAMBDA j : \A l \in 1..(j - 1) : mention[l] # mention[j])
  IN  [ k \in DOMAIN first |-> mention[first[k]] ]

\* the for loop over the rows: the ids of the nodes in order of first
\* mention, the source of a row before its target
NodeIds(rows) ==
  LET mention == [ j \in 1..(2 * Len(rows)) |->
                     IF j % 2 = 1 THEN << rows[(j + 1) \div 2].bucket, rows[(j + 1) \div 2].from_addr >>
                                  ELSE << rows[j \div 2].bucket, rows[j \div 2].to_addr >> ]
      first   == SelectSeq([ j \in 1..(2 * Len(rows)) |-> j ],
                           LAMBDA j : \A l \in 1..(j - 1) : mention[l] # mention[j])
  IN  [ k \in DOMAIN first |-> mention[first[k]] ]

\* getSankeyData: nodes and links of the flow rows; a failing query is
\* logged and answered with an empty graph
getSankeyData(t, unit, tie, ok) ==
  IF ~ok THEN [ nodes |-> <<>>, links |-> <<>> ]
  ELSE LET rows == FlowRows(t, unit, tie)
       IN  [ nodes |-> NodeIds(rows),
             links |-> [ k \in DOMAIN rows |->
                           [ source |-> <<rows[k].bucket, rows[k].from_addr>>,
                             target |-> <<rows[k].bucket, rows[k].to_addr>>,
                             value  |-> rows[k].amount,
                             day    |-> rows[k].bucket ] ] ]

\* the database file holds some transfers table; no loader has run
InitLoad ==
  /\ table \in Tables
  /\ loader = IdleLoader
  /\ view = NoView
  /\ peer = NoPeer
  /\ fs \in [files : {{}}, denied : {FALSE}]
  /\ handlerBound = FALSE
  /\ req = NoRequest
  /\ pc = "idle"
  /\ url = NoUrl
  /\ staticPath = NoMatch
  /\ res = NewResponse
  /\ rs = NoStream
  /\ fetched = <<>>
  /\ hres = NoResponse
  /\ errlog = <<>>
  /\ fsOps = <<>>
  /\ uncaught = 0
  /\ fault = "none"
  /\ call = IdleCall

\* what a loader leaves behind: its name and the value it returned
Returned(fn, value) == [ state |-> "returned", fn |-> fn, value |-> value ]

LoaderFrame ==
  UNCHANGED <<fs, handlerBound, req, pc, url, staticPath, res, rs, fetched, hres, errlog,
              fsOps, uncaught, fault, call, peer, table, view>>

\* the /transfers route loads
LoadTransfers ==
  /\ loader.state = "idle"
  /\ \E tie \in TieOrders : loader' = Returned("getTransfers", getTransfers(table, tie))
  /\ LoaderFrame

\* the index route loads
LoadLedger ==
  /\ loader.state = "idle"
  /\ \E tie \in TieOrders : loader' = Returned("fetchLedgerData", fetchLedgerData(table, tie))
  /\ LoaderFrame

\* the /holders route loads its series
LoadHolderSeries ==
  /\ loader.state = "idle"
  /\ loader' = Returned("getHolderSeries", getHolderSeries(table))
  /\ LoaderFrame

\* how a call of getSankeyData can go: the database opens and the query
\* answers, the query throws, or the database does not open
SankeyOutcomes == {"ok", "query", "open"}

\* a call of getSankeyData that got past `new Database`: the rows it read,
\* what it returned, whether the catch block logged, and the handle, which
\* the finally block closes
SankeyReturned(t, unit, tie, ok) ==
  [ state  |-> IF ok THEN "returned" ELSE "caught",
    fn     |-> "getSankeyData",
    rows   |-> IF ok THEN FlowRows(t, unit, tie) ELSE <<>>,
    value  |-> getSankeyData(t, unit, tie, ok),
    logged |-> ~ok,
    db     |-> "closed" ]

\* `new Database` stands before the try block: its exception leaves the
\* function, nothing is logged and nothing is returned
SankeyThrew == [ state |-> "threw", fn |-> "getSankeyData", logged |-> FALSE, db |-> "none" ]

\* the /holders route loads its flow graph
LoadSankey ==
  /\ loader.state = "idle"
  /\ \E unit \in Units, tie \in TieOrders, outcome \in SankeyOutcomes :
       loader' = IF outcome = "open" THEN SankeyThrew
                 ELSE SankeyReturned(table, unit, tie, outcome = "ok")
  /\ LoaderFrame

NextLoad ==
  \/ LoadTransfers
  \/ LoadLedger
  \/ LoadHolderSeries
  \/ LoadSankey

SpecLoad == InitLoad /\ [][NextLoad]_vars

\* ------------------------------------------------ the Transfers component

\* addresses are strings of hexadecimal digits after "0x", here as their
\* characters; a null or empty address is the empty sequence
HexDigit == <<"1", "2", "3", "4", "5", "6", "7">>

Address(j) == <<"0", "x", HexDigit[j]>>

NoAddress == <<>>

\* the (sender, receiver) pair of transfer i, as a number below k * k: the
\* pairs are gone through in order, and backwards on every second pass when
\* `reverse`, so that the pairs met last are then the most frequent
PairOf(i, k, reverse) ==
  LET pass == (i - 1) \div (k * k)
      pos  == (i - 1) % (k * k)
  IN  IF reverse /\ pass % 2 = 1 THEN k * k - 1 - pos ELSE pos

\* loader data of n transfers among k addresses; with `nulls` every fifth
\* transfer has no sender (a mint) and every seventh no receiver (a burn)
Transfers(n, k, reverse, nulls) ==
  [ i \in 1..n |->
      [ tx_hash   |-> i,
        from_addr |-> IF nulls /\ i % 5 = 0 THEN NoAddress
                      ELSE Address((PairOf(i, k, reverse) % k) + 1),
        to_addr   |-> IF nulls /\ i % 7 = 0 THEN NoAddress
                      ELSE Address((PairOf(i, k, reverse) \div k) + 1) ] ]

TransferLists ==
  { Transfers(n, k, reverse, nulls) :
      n \in 0..MaxFlowRows, k \in {1, 2, 7}, reverse \in BOOLEAN, nulls \in BOOLEAN }

\* `${tx.from_addr}->${tx.to_addr}`
Key(tx) == tx.from_addr \o <<"-", ">">> \o tx.to_addr

\* key.split('->')
RECURSIVE SplitArrow(_, _)
SplitArrow(cs, piece) ==
  IF cs = <<>> THEN <<piece>>
  ELSE IF Len(cs) >= 2 /\ cs[1] = "-" /\ cs[2] = ">"
    THEN <<piece>> \o SplitArrow(SubSeq(cs, 3, Len(cs)), <<>>)
  ELSE SplitArrow(Tail(cs), Append(piece, cs[1]))

\* the positions of q that hold a value for the first time
FirstMentions(q) ==
  SelectSeq([ j \in DOMAIN q |-> j ], LAMBDA j : \A l \in 1..(j - 1) : q[l] # q[j])

\* Array.from(linkCounts.entries()).map(...): one entry per key, in the
\* order the keys were first set, with the number of transfers of the key
LinkEntries(transfers) ==
  LET counted == SelectSeq(transfers,
                   LAMBDA tx : tx.from_addr # NoAddress /\ tx.to_addr # NoAddress)
      keys    == [ j \in DOMAIN counted |-> Key(counted[j]) ]
      first   == FirstMentions(keys)
  IN  [ e \in DOMAIN first |->
          [ source |-> SplitArrow(keys[first[e]], <<>>)[1],
            target |-> SplitArrow(keys[first[e]], <<>>)[2],
            value  |-> Cardinality({ j \in DOMAIN keys : keys[j] = keys[first[e]] }),
            at     |-> e ] ]

\* .sort((a, b) => b.value - a.value): stable, entries of equal value keep
\* their order
ByValueDesc(entries) ==
  SortSeq(entries, LAMBDA a, b : a.value > b.value \/ (a.value = b.value /\ a.at < b.at))

\* links cut from the entries as they stand, without sorting them
FlowLinksUnsorted(transfers) ==
  LET kept == Take(LinkEntries(transfers), FlowLimit)
  IN  [ e \in DOMAIN kept |->
          [ source |-> kept[e].source, target |-> kept[e].target, value |-> kept[e].value ] ]

\* const links = ... .sort(...).slice(0, 40)
FlowLinks(transfers) ==
  LET kept == Take(ByValueDesc(LinkEntries(transfers)), FlowLimit)
  IN  [ e \in DOMAIN kept |->
          [ source |-> kept[e].source, target |-> kept[e].target, value |-> kept[e].value ] ]

\* const nodes = Array.from(nodeIds).filter(...).map((id) => ({ id }))
FlowNodes(transfers, links) ==
  LET counted == SelectSeq(transfers,
                   LAMBDA tx : tx.from_addr # NoAddress /\ tx.to_addr # NoAddress)
      added   == [ j \in 1..(2 * Len(counted)) |->
                     IF j % 2 = 1 THEN counted[(j + 1) \div 2].from_addr
                                  ELSE counted[j \div 2].to_addr ]
      first   == FirstMentions(added)
      ids     == [ e \in DOMAIN first |-> added[first[e]] ]
      linked  == SelectSeq(ids, LAMBDA id :
                   \E l \in DOMAIN links : links[l].source = id \/ links[l].target = id)
  IN  [ e \in DOMAIN linked |-> [ id |-> linked[e] ] ]

\* const flowData = useMemo(() => { ... }, [transfers])
flowData(transfers) ==
  IF Len(transfers) = 0 THEN [ nodes |-> <<>>, links |-> <<>> ]
  ELSE [ nodes |-> FlowNodes(transfers, FlowLinks(transfers)),
         links |-> FlowLinks(transfers) ]

\* the loader has returned the transfers; the component has not rendered
InitFlow ==
  /\ loader \in { [state |-> "returned", fn |-> "getTransfers", value |-> l] :
                    l \in TransferLists }
  /\ view = NoView
  /\ table = <<>>
  /\ peer = NoPeer
  /\ fs \in [files : {{}}, denied : {FALSE}]
  /\ handlerBound = FALSE
  /\ req = NoRequest
  /\ pc = "idle"
  /\ url = NoUrl
  /\ staticPath = NoMatch
  /\ res = NewResponse
  /\ rs = NoStream
  /\ fetched = <<>>
  /\ hres = NoResponse
  /\ errlog = <<>>
  /\ fsOps = <<>>
  /\ uncaught = 0
  /\ fault = "none"
  /\ call = IdleCall

\* function Transfers(): the component renders with the loader data
Render ==
  /\ view.state = "none"
  /\ loader.state = "returned"
  /\ loader.fn = "getTransfers"
  /\ view' = [ state |-> "rendered", flowData |-> flowData(loader.value) ]
  /\ UNCHANGED <<fs, handlerBound, req, pc, url, staticPath, res, rs, fetched, hres, errlog,
                 fsOps, uncaught, fault, call, peer, table, loader>>

NextFlow == Render

SpecFlow == InitFlow /\ [][NextFlow]_vars

\* ------------------------------------------------------------------ claims

\* C1: whenever resolveStatic returns a file path, that path is a descendant
\* of clientDir, whatever "." / ".." segments, duplicate or leading
\* separators the input holds.
C1_ResolvedInsideRoot ==
  (call.state = "returned" /\ call.result # NoMatch)
    => IsDescendant(call.result, clientDir)

\* "/assets/../../app.js" resolves to the app.js of the root, not to a file above it
C1_TraversalWitness ==
  /\ call.state = "returned"
  /\ call.pathname = <<"", "assets", "..", "..", "app.js">>
  /\ call.result = clientDir \o <<"app.js">>

\* C2: a path that neither starts with "/assets/" nor is, after one leading
\* "/" is stripped, exactly an allow-list name (the empty path included)
\* resolves to no match.
C2_NonCandidateNoMatch ==
  LET p       == call.pathname
      trimmed == IF Len(p) >= 2 /\ p[1] = "" THEN Tail(p) ELSE p
  IN  ( /\ call.state = "returned"
        /\ ~(Len(p) >= 3 /\ p[1] = "" /\ p[2] = "assets")
        /\ ~(Len(trimmed) = 1 /\ trimmed[1] \in staticFiles) )
        => call.result = NoMatch

\* "/app.js" exists under the root and is still no match
C2_ExistingFileRejected ==
  /\ call.state = "returned"
  /\ call.pathname = <<"", "app.js">>
  /\ clientDir \o <<"app.js">> \in fs.files
  /\ call.result = NoMatch

\* the request went down the delegation branch and the callback is finished
DelegatedAndDone == pc = "done" /\ url # NoUrl /\ staticPath = NoMatch

\* C3: every request whose path resolves to no static asset is delegated: the
\* handler is invoked, once, with a request built from the original method,
\* URL and headers, and a response of the handler is what the client gets.
C3_AlwaysDelegates ==
  DelegatedAndDone
    => /\ Len(fetched) = 1
       /\ fetched[1].method = req.method
       /\ fetched[1].url = url
       /\ fetched[1].headers = req.headers
       /\ (hres # NoResponse => res.statusCode = hres.status)

\* the request path is neither under /assets/ nor an allow-list name
NonCandidateRequest ==
  /\ url # NoUrl
  /\ ~(Len(url.pathname) >= 3 /\ url.pathname[2] = "assets")
  /\ ~(Len(url.pathname) = 2 /\ url.pathname[2] \in staticFiles)

\* C4: while a request whose path is neither under /assets/ nor an
\* allow-list name is handled, no filesystem call (stat, open) is made.
C4_NoFilesystemAccess == NonCandidateRequest => fsOps = <<>>

\* "/app.js" is on disk, the request for it is finished and nothing was touched
C4_DelegatedUntouched ==
  /\ pc = "done"
  /\ url # NoUrl
  /\ url.pathname = <<"", "app.js">>
  /\ clientDir \o <<"app.js">> \in fs.files
  /\ fsOps = <<>>

\* what C5 promises of a static response
ServedFile ==
  /\ res.statusCode = 200
  /\ <<"cache-control", "public, max-age=31536000, immutable">> \in res.headers
  /\ res.body = Content(staticPath)
  /\ Len(res.body) = FileLen
  /\ res.ended = 1
  /\ fetched = <<>>

\* C5 as stated: whenever resolveStatic returned a file, the response is 200
\* with the immutable cache header and a body identical to the file, and the
\* handler is not invoked.
C5_StaticHitServesFile == (pc = "done" /\ staticPath # NoMatch) => ServedFile

\* C5 amended: whenever resolveStatic returned a file and the file was then
\* opened and read to its end without error, the response is 200 with the
\* immutable cache header and a body identical to the file, and the handler
\* is not invoked.
C5_StaticHitServesFileIfRead ==
  (pc = "done" /\ staticPath # NoMatch /\ fault = "none") => ServedFile

\* /assets/app.js was streamed to its end
C5_StreamedWitness ==
  /\ pc = "done"
  /\ staticPath = clientDir \o <<"assets", "app.js">>
  /\ fault = "none"
  /\ res.body = Content(staticPath)

\* C6: a candidate whose target is missing, a directory or cannot be
\* stat'ed resolves to no match without an error, and the request is then
\* delegated to the handler; the dispatcher answers with no status of its own.
C6_MissingCandidateDelegates ==
  ( /\ DelegatedAndDone
    /\ \/ Len(url.pathname) >= 3 /\ url.pathname[2] = "assets"
       \/ Len(url.pathname) = 2 /\ url.pathname[2] \in staticFiles )
    => Len(fetched) = 1

\* C7: a request whose handler call throws or rejects gets exactly one
\* response, with status 500, content type text/plain and the body
\* "Internal Server Error", and exactly one error log entry.
C7_HandlerFailureIs500 ==
  (pc = "done" /\ fault \in {"reference", "rejected"})
    => /\ res.statusCode = 500
       /\ res.headers = {<<"content-type", "text/plain">>}
       /\ res.body = <<"Internal Server Error">>
       /\ res.ended = 1
       /\ Len(errlog) = 1

\* a handler that was invoked rejected
C7_RejectedWitness ==
  /\ pc = "done"
  /\ fault = "rejected"
  /\ Len(fetched) = 1
  /\ res.statusCode = 500

\* C8: a response of the handler is forwarded verbatim: same status, exactly
\* the handler's headers (every name and every value, repeated ones
\* included), and the handler's body, or no payload when it has none.
C8_ForwardedVerbatim ==
  (pc = "done" /\ hres # NoResponse /\ fault = "none")
    => /\ res.statusCode = hres.status
       /\ res.headers = {hres.headers[i] : i \in 1..Len(hres.headers)}
       /\ res.body = hres.body
       /\ res.ended = 1

C10_OpenFileIsReleased == rs.fd => ENABLED Next

\* the state of the per-request state machine that a position of the callback
\* belongs to
Phase(p, f) ==
  CASE p = "received" -> "Received"
    [] p \in {"resolving", "resolved"} -> "Resolving"
    [] p = "streaming" -> "StaticStreaming"
    [] p \in {"awaiting", "forwarding"} -> "Delegating"
    [] p = "done" -> IF f = "none" THEN "Completed" ELSE "Failed"

PhaseRank(ph) ==
  CASE ph = "Received" -> 0
    [] ph = "Resolving" -> 1
    [] ph \in {"StaticStreaming", "Delegating"} -> 2
    [] ph \in {"Completed", "Failed"} -> 3

\* C11: a request only moves forward through Received, Resolving,
\* StaticStreaming or Delegating, Completed or Failed: a request that entered
\* one of StaticStreaming and Delegating never enters the other, and nothing
\* happens to a request after it is Completed or Failed.
C11_ForwardOnly ==
  [][ LET from == Phase(pc, fault)
          to   == Phase(pc', fault')
      IN  /\ PhaseRank(to) >= PhaseRank(from)
          /\ from = "StaticStreaming" => to \in {"StaticStreaming", "Completed", "Failed"}
          /\ from = "Delegating" => to \in {"Delegating", "Completed", "Failed"}
          /\ from \in {"Completed", "Failed"} => to = from /\ res' = res
          /\ ~(fetched' # <<>> /\ rs'.state # "none") ]_vars

\* a request that went through Delegating and completed
C11_DelegatedCompleted ==
  pc = "done" /\ fault = "none" /\ hres.hasBody /\ res.ended = 1

\* how many of the filesystem calls made for the request are of one kind
CallsOf(kind) == Cardinality({ i \in DOMAIN fsOps : fsOps[i][1] = kind })

\* C12: within one request the filesystem is consulted for the resolution at
\* most once, the static file is opened at most once and the external handler
\* is invoked at most once, on every path, the error paths included.
C12_NoRetries ==
  /\ CallsOf("stat") <= 1
  /\ CallsOf("open") <= 1
  /\ Len(fetched) <= 1

\* a candidate missing on disk was delegated and the handler's call rejected
C12_FailedAfterOneCall ==
  pc = "done" /\ fault = "rejected" /\ CallsOf("stat") = 1 /\ Len(fetched) = 1

\* C13: when a candidate passed the existence check and then fails to open
\* or to read, the request ends as an internal error, logged once, with
\* status 500 and the body `Internal Server Error` when no headers were sent
\* yet; the path is not resolved again and the handler is not invoked.
C13_RaceIsInternalError ==
  [][ (fault = "none" /\ fault' \in {"open", "read"}) =>
        /\ pc' = "done"
        /\ Len(errlog') = 1
        /\ res'.ended = 1
        /\ fetched' = <<>>
        /\ CallsOf("stat")' = 1
        /\ CallsOf("open")' = 1
        /\ ~res.headersSent =>
              /\ res'.statusCode = 500
              /\ <<"content-type", "text/plain">> \in res'.headers
              /\ ~res.destroyed => res'.body = <<ErrorBody>> ]_vars

\* the file was removed between the existence check and the open
C13_RemovedBeforeOpen ==
  /\ pc = "done"
  /\ fault = "open"
  /\ staticPath \notin fs.files
  /\ res.statusCode = 500
  /\ res.body = <<ErrorBody>>

\* C14: when a failure is handled after the response headers were sent, the
\* committed status code and headers stay as they are and the response is
\* only terminated: nothing is added to its body.
C14_OnlyTerminates ==
  [][ (fault = "none" /\ fault' \notin {"none", "body"} /\ res.headersSent) =>
        /\ res'.statusCode = res.statusCode
        /\ res'.headers = res.headers
        /\ res'.ended = res.ended + 1
        /\ res'.body = res.body ]_vars

\* C15: the request handed to the external handler carries a body stream
\* exactly when the method is neither GET nor HEAD: those two are forwarded
\* without a body, every other method with the incoming stream as its body.
C15_BodyIffNotReadOnly ==
  \A i \in DOMAIN fetched :
    /\ fetched[i].method = req.method
    /\ fetched[i].body \in {"undefined", "stream"}
    /\ fetched[i].body = "stream" <=> req.method \notin {"GET", "HEAD"}

\* a POST reached the handler with its body stream
C15_PostForwarded ==
  /\ fetched # <<>>
  /\ req.method = "POST"
  /\ fetched[1].body = "stream"

\* the content type the MIME table gives each file name of ServeFiles
ListedType(name) ==
  CASE name = "a.html" -> "text/html"
    [] name \in {"a.js", "a.min.js", "a b.js"} -> "application/javascript"
    [] name = "a.css" -> "text/css"
    [] name = "a.json" -> "application/json"
    [] name \in {"a.ico", "favicon.ico"} -> "image/x-icon"
    [] name = "a.png" -> "image/png"
    [] name = "a.svg" -> "image/svg+xml"
    [] name = "a.txt" -> "text/plain"
    [] name = "a.woff2" -> "font/woff2"
    [] name = "a.webp" -> "image/webp"
    [] name = "a.avif" -> "image/avif"
    [] OTHER -> "application/octet-stream"

\* C16: the Content-Type of a static response is the MIME table's entry for
\* the file's extension, matched case-sensitively against the eleven listed
\* extensions, and application/octet-stream for any other extension, a
\* differently cased one and no extension included.
C16_ContentTypeByExtension ==
  (rs.state # "none" /\ fault = "none") =>
    /\ HasHeader(res.headers, "content-type")
    /\ HeaderValue(res.headers, "content-type") = ListedType(Last(rs.path))

\* a file with an upper-case extension was served as a generic binary
C16_UpperCaseServed ==
  /\ pc = "done"
  /\ fault = "none"
  /\ rs.path = clientDir \o <<"assets", "A.JS">>
  /\ <<"content-type", "application/octet-stream">> \in res.headers
  /\ Len(res.body) = FileLen

\* the character a percent-encoded byte stands for
HexByte(a, b) ==
  CASE <<a, b>> = <<"2", "0">> -> " "
    [] <<a, b>> \in { <<"2", "E">>, <<"2", "e">> } -> "."

\* percent-decoding of the characters of a segment
RECURSIVE PercentDecode(_)
PercentDecode(cs) ==
  IF cs = <<>> THEN <<>>
  ELSE IF cs[1] = "%" /\ Len(cs) >= 3
    THEN <<HexByte(cs[2], cs[3])>> \o PercentDecode(SubSeq(cs, 4, Len(cs)))
  ELSE <<cs[1]>> \o PercentDecode(Tail(cs))

\* the URL-decoded form of a path
DecodedPath(pathname) ==
  [ i \in DOMAIN pathname |-> Unspell(PercentDecode(Spell(pathname[i]))) ]

\* C19: the path the dispatcher classifies and resolves is the URL-decoded
\* path of the request: a percent-encoded path is matched against the prefix
\* rule and the allow-list, and looked up on disk, in its decoded form.
C19_ResolvesDecodedPath ==
  [][ (pc = "resolving" /\ pc' = "resolved") =>
        staticPath' = resolveStatic(DecodedPath(url.pathname), fs).path ]_vars

\* what a request handled alone against the filesystem state would resolve to
AloneStatic(v) == resolveStatic(ParseURL(v.req).pathname, fs).path

\* the branch, status and headers of request v are those of v handled alone
OutcomeAsAlone(v) ==
  /\ v.rs.state # "none" => AloneStatic(v) # NoMatch /\ v.rs.path = AloneStatic(v)
  /\ (v.fetched # <<>> \/ v.fault = "reference") => AloneStatic(v) = NoMatch
  /\ (v.pc = "done" /\ v.fault = "none" /\ v.rs.state # "none") =>
        /\ v.res.statusCode = 200
        /\ v.res.headers = StaticHead(NewResponse, AloneStatic(v)).headers
  /\ (v.pc = "done" /\ v.fault = "none" /\ v.fetched # <<>>) =>
        /\ v.res.statusCode = v.hres.status
        /\ v.res.headers = ForwardHead(NewResponse, v.hres).headers
  /\ v.fault \in {"reference", "rejected", "open"} => v.res.statusCode = 500

TopByBlock(result, t, limit) ==
  /\ Len(result) = IF Len(t) < limit THEN Len(t) ELSE limit
  /\ \A k \in 1..(Len(result) - 1) : result[k].block >= result[k + 1].block
  /\ \A k \in DOMAIN result : \E i \in DOMAIN t : t[i] = result[k]
  /\ \A j, k \in DOMAIN result : j # k => result[j].tx_hash # result[k].tx_hash
  /\ \A i \in DOMAIN t :
       (\A k \in DOMAIN result : result[k] # t[i]) =>
         \A k \in DOMAIN result : t[i].block <= result[k].block

\* the number of rows a loader's query returned
QueryRows ==
  CASE loader.fn = "getTransfers" -> Len(loader.value)
    [] loader.fn = "fetchLedgerData" -> Len(loader.value.transfers)
    [] loader.fn = "getHolderSeries" -> Len(loader.value)
    [] loader.fn = "getSankeyData" -> Len(loader.value.links)

\* C20 as stated: every route loader's result is bounded by a fixed row
\* limit independent of the size of the transfers table: the transfers
\* loader returns at most 200 rows, those with the highest blocks in
\* descending order, and the holders loaders likewise at most a fixed number.
C20_EveryLoaderBounded ==
  loader.state = "returned" =>
    /\ QueryRows <= TransfersLimit
    /\ loader.fn = "getTransfers" => TopByBlock(loader.value, table, TransfersLimit)

\* C20, amended: the transfers loader returns at most 200 rows, those with
\* the highest blocks in descending order (the index loader at most 25); the
\* holders loaders have no limit: the series has one row for every distinct
\* day of the table, in ascending order, and the flow query one row for each
\* group of transfers it keeps, at most one per transfer, ordered by time.
C20_LimitOnlyOnTransfers ==
  /\ (loader.state = "returned" /\ loader.fn = "getTransfers") =>
        TopByBlock(loader.value, table, TransfersLimit)
  /\ (loader.state = "returned" /\ loader.fn = "fetchLedgerData") =>
        TopByBlock(loader.value.transfers, table, LedgerLimit)
  /\ (loader.state = "returned" /\ loader.fn = "getHolderSeries") =>
        /\ Len(loader.value) = Cardinality({ DayOf(table[i].hour) : i \in DOMAIN table })
        /\ \A k \in 1..(Len(loader.value) - 1) : loader.value[k].day < loader.value[k + 1].day
  /\ (loader.state = "returned" /\ loader.fn = "getSankeyData") =>
        /\ Len(loader.value.links) <= Len(table)
        /\ \A k \in DOMAIN loader.value.links :
             /\ loader.value.links[k].value # 0
             /\ \E i \in DOMAIN table :
                  /\ table[i].value # 0
                  /\ loader.value.links[k].source[2] = table[i].from_addr
                  /\ loader.value.links[k].target[2] = table[i].to_addr
        /\ \A k \in 1..(Len(loader.value.links) - 1) :
             loader.value.links[k].day <= loader.value.links[k + 1].day
  /\ loader.state = "caught" => loader.value = [nodes |-> <<>>, links |-> <<>>]

\* the transfers loader cut a longer table down to its limit, while the
\* holders series of the same kind of table has a row for every day
C20_TableLongerThanLimit ==
  /\ loader.state = "returned"
  /\ loader.fn = "getTransfers"
  /\ Len(table) > TransfersLimit
  /\ Len(loader.value) = TransfersLimit

\* the (sender, receiver) pairs of the transfers that have both addresses
FlowPairs ==
  { <<loader.value[i].from_addr, loader.value[i].to_addr>> :
      i \in { j \in DOMAIN loader.value :
                loader.value[j].from_addr # NoAddress /\ loader.value[j].to_addr # NoAddress } }

\* the number of transfers from pair[1] to pair[2]
FlowCount(pair) ==
  Cardinality({ i \in DOMAIN loader.value :
                  loader.value[i].from_addr = pair[1] /\ loader.value[i].to_addr = pair[2] })

\* C21: flowData.links holds at most 40 links, one per distinct (from_addr,
\* to_addr) pair among the transfers that have both addresses, each valued
\* with the number of such transfers, in non-increasing order of value, and
\* no omitted pair has a strictly larger count than a retained one.
C21_TopFortyPairs ==
  view.state = "rendered" =>
    LET links == view.flowData.links
        held  == { <<links[e].source, links[e].target>> : e \in DOMAIN links }
    IN  /\ Len(links) <= FlowLimit
        /\ Len(links) = IF Cardinality(FlowPairs) < FlowLimit THEN Cardinality(FlowPairs)
                                                              ELSE FlowLimit
        /\ held \subseteq FlowPairs
        /\ Cardinality(held) = Len(links)
        /\ \A e \in DOMAIN links :
             links[e].value = FlowCount(<<links[e].source, links[e].target>>)
        /\ \A e \in 1..(Len(links) - 1) : links[e].value >= links[e + 1].value
        /\ \A pair \in FlowPairs \ held :
             \A e \in DOMAIN links : FlowCount(pair) <= links[e].value

\* more pairs than the limit, the most frequent of them met last
C21_BusiestPairsMetLast ==
  /\ view.state = "rendered"
  /\ Cardinality(FlowPairs) > FlowLimit
  /\ Len(view.flowData.links) = FlowLimit
  /\ view.flowData.links[1].value > view.flowData.links[FlowLimit].value
  /\ FlowCount(<<loader.value[1].from_addr, loader.value[1].to_addr>>)
       < view.flowData.links[1].value

\* p is a file below <asset root>/assets/, or a file of the asset root whose
\* name is in the allow-list
Servable(p) ==
  \/ IsDescendant(p, clientDir \o <<"assets">>)
  \/ /\ Len(p) = Len(clientDir) + 1
     /\ IsPrefix(clientDir, p)
     /\ Last(p) \in staticFiles

\* C22: through the dispatcher every file served as a static asset lies
\* below <asset root>/assets/ or is a file of the asset root named in the
\* allow-list, whatever dot segments or duplicate slashes the request path
\* holds; no filesystem call of the request reaches another file either.
C22_OnlyServableServed ==
  /\ staticPath # NoMatch => Servable(staticPath)
  /\ rs.state # "none" => Servable(rs.path)
  /\ \A i \in DOMAIN fsOps : fsOps[i][1] = "open" => Servable(fsOps[i][2])

\* a request below /assets/ with a ".." in it was answered from /assets/
C22_DotSegmentsServed ==
  /\ pc = "done"
  /\ fault = "none"
  /\ \E i \in DOMAIN req.url : req.url[i] \in DoubleDot
  /\ req.url[2] = "assets"
  /\ rs.path = clientDir \o <<"assets", "app.js">>
  /\ Len(res.body) = FileLen

\* C23: in every reachable state the bytes written to a response that was
\* committed as a 200 static response are a prefix of the served file's
\* contents, a read error after some bytes were streamed included.
C23_BodyIsFilePrefix ==
  (rs.state # "none" /\ res.statusCode = 200) => IsPrefix(res.body, Content(rs.path))

\* the branch request v has taken, once it has taken one
BranchOf(v) ==
  IF v.rs.state # "none" THEN "static"
  ELSE IF v.fetched # <<>> \/ v.fault = "reference" THEN "delegate"
  ELSE IF v.fault = "url" THEN "failed"
  ELSE "undecided"

\* v has completed a static response
StaticDone(v) == v.pc = "done" /\ v.fault = "none" /\ v.rs.state # "none"

\* C24 as stated: two requests with the same path take the same branch and,
\* on a static hit, get the same status and headers, whatever their method,
\* headers (a missing Host included), query string or body.
C24_SamePathSameOutcome ==
  (BranchOf(Mine) # "undecided" /\ BranchOf(peer) # "undecided") =>
    /\ BranchOf(Mine) = BranchOf(peer)
    /\ (StaticDone(Mine) /\ StaticDone(peer)) =>
          /\ Mine.res.statusCode = peer.res.statusCode
          /\ Mine.res.headers = peer.res.headers

\* C24, amended: two requests with the same path whose targets parse (the
\* Host header absent or a valid host) take the same branch and, on a static
\* hit, get the same status and headers, whatever their method, headers,
\* query string or body; a request whose Host header makes the URL invalid
\* takes neither branch and ends as the generic failure.
C24_SamePathSameOutcomeIfParsed ==
  /\ (BranchOf(Mine) \in {"static", "delegate"} /\ BranchOf(peer) \in {"static", "delegate"}) =>
       /\ BranchOf(Mine) = BranchOf(peer)
       /\ (StaticDone(Mine) /\ StaticDone(peer)) =>
             /\ Mine.res.statusCode = peer.res.statusCode
             /\ Mine.res.headers = peer.res.headers
  /\ \A v \in {Mine, peer} :
       /\ BranchOf(v) = "failed" <=> (v.pc # "received" /\ ~ValidHost(HostOf(v.req.headers)))
       /\ BranchOf(v) = "failed" => v.res.statusCode = 500 /\ v.res.ended = 1

\* a POST without Host and with a query string was served the same file as
\* the plain GET
C24_VariantServedAlike ==
  /\ StaticDone(Mine)
  /\ StaticDone(peer)
  /\ \E v \in {Mine, peer} :
       /\ v.req.method = "POST"
       /\ v.req.headers = {}
       /\ v.req.url = <<"", "favicon.ico?v=1">>
  /\ Mine.rs.path = peer.rs.path

\* the request is over and its response was ended once
Terminal == pc = "done" /\ res.ended = 1

SourceId(row) == <<row.bucket, row.from_addr>>

TargetId(row) == <<row.bucket, row.to_addr>>

\* C26: the graph getSankeyData builds from the rows of the flow query is
\* well-formed: node ids are pairwise distinct, every link's source and
\* target is the id of a node, every node is an endpoint of a link, and
\* there is one link per row, in the order of the rows.
C26_GraphWellFormed ==
  (loader.state = "returned" /\ loader.fn = "getSankeyData") =>
    LET nodes == loader.value.nodes
        links == loader.value.links
        rows  == loader.rows
    IN  /\ \A i, j \in DOMAIN nodes : i # j => nodes[i] # nodes[j]
        /\ \A k \in DOMAIN links :
             /\ \E n \in DOMAIN nodes : nodes[n] = links[k].source
             /\ \E n \in DOMAIN nodes : nodes[n] = links[k].target
        /\ \A n \in DOMAIN nodes :
             \E k \in DOMAIN links : nodes[n] \in {links[k].source, links[k].target}
        /\ Len(links) = Len(rows)
        /\ \A k \in DOMAIN rows :
             /\ links[k].source = SourceId(rows[k])
             /\ links[k].target = TargetId(rows[k])
             /\ links[k].value = rows[k].amount

\* a graph of several links over several buckets in which nodes are shared
\* between links
C26_SharedNodes ==
  /\ loader.state = "returned"
  /\ loader.fn = "getSankeyData"
  /\ Len(loader.value.links) > 2
  /\ Len(loader.value.nodes) < 2 * Len(loader.value.links)
  /\ \E j, k \in DOMAIN loader.value.links :
       /\ loader.value.links[j].day # loader.value.links[k].day
       /\ loader.value.links[j].source[2] = loader.value.links[k].source[2]

\* C27: getSankeyData never lets a database error reach the route loader:
\* when opening the database or running the query fails it logs the error
\* and returns the empty graph, and a handle that was opened is closed.
C27_DatabaseErrorAbsorbed ==
  (loader.state # "idle" /\ loader.fn = "getSankeyData") =>
    /\ loader.state # "threw"
    /\ loader.state = "caught" =>
         /\ loader.logged
         /\ loader.value = [ nodes |-> <<>>, links |-> <<>> ]
    /\ loader.db # "none" => loader.db = "closed"

====
